---- MODULE Spec2Model ----
(***************************************************************************)
(* Execution control loop of the DRIFT/KMNO spread-trading bot             *)
(* (bot/src/index.ts): startup reconciliation, the single-flight cycle     *)
(* scheduler, the two-leg order execution with bounded retries, the        *)
(* position ledger and the shutdown coordinator.                           *)
(*                                                                         *)
(* The process is a single-threaded event loop.  Every action below is one *)
(* run-to-completion step between two suspension points (await) of the     *)
(* code.  Network calls (bar fetch, order book, order submission) are the  *)
(* suspension points; their outcomes are chosen by the environment.        *)
(* Quantities are in whole base units of the instrument.                   *)
(***************************************************************************)
EXTENDS Integers, Sequences, FiniteSets, TLC

(* ---------------- program constants (index.ts 19-34) ------------------- *)
DRIFT_QUANTITY == 10
KMNO_QUANTITY == 100
PRICE_RATIO == 10
SIGNAL_LAG_PERIODS == 2
SIMULATION_MODE == FALSE
MAX_SLIPPAGE_BPS == 25
MAX_RETRIES == 3
RETRY_DELAY_MS == 1000

(* ---------------- bounds of the model ---------------------------------- *)
\* number of admitted trading cycles explored
MaxCycles == 3

(* ---------------- markets and helpers --------------------------------- *)
Markets == {"DRIFT", "KMNO"}

\* owner id of the legs submitted by the shutdown path
ShutdownOwner == 0

Abs(x) == IF x < 0 THEN 0 - x ELSE x
Sign(x) == IF x > 0 THEN 1 ELSE IF x < 0 THEN 0 - 1 ELSE 0
Min(a, b) == IF a < b THEN a ELSE b

(* ---------------- the ledger (type Position | null) -------------------- *)
NullPosition == [isNull |-> TRUE, drift |-> 0, kmno |-> 0, signal |-> 0]
Position(d, k, s) == [isNull |-> FALSE, drift |-> d, kmno |-> k, signal |-> s]

(* ---------------- environment inputs ----------------------------------- *)
\* positions the venue account can hold when the process starts: flat, the
\* two spreads, same-sign legs, and a single open leg
VenueStarts ==
  { [DRIFT |-> 0, KMNO |-> 0],
    [DRIFT |-> DRIFT_QUANTITY, KMNO |-> 0 - KMNO_QUANTITY],
    [DRIFT |-> 0 - DRIFT_QUANTITY, KMNO |-> KMNO_QUANTITY],
    [DRIFT |-> DRIFT_QUANTITY, KMNO |-> KMNO_QUANTITY],
    [DRIFT |-> DRIFT_QUANTITY, KMNO |-> 0] }

\* bar sequences (oracleClose values) the candle endpoint can return
CandleResponses ==
  [DRIFT |-> { <<30, 20, 10>>, <<10, 20, 30>>, <<20, 20, 20>>, <<20, 20>> },
   KMNO  |-> { <<2, 2, 2>>, <<2, 2>> }]

\* order books (price, size per level) the DLOB endpoint can return
Level(p, s) == [price |-> p, size |-> s]
BookResponses ==
  [DRIFT |-> { <<Level(1000, 5), Level(1001, 5)>>,
               <<Level(1000, 5), Level(1010, 5)>>,
               <<Level(1000, 5)>>,
               <<>> },
   KMNO  |-> { <<Level(100, 100)>>,
               <<Level(100, 50), Level(101, 50)>> }]

VARIABLES
  mainPc,           \* position of main(): start, reconcile, ready, bootstrap, done
  exitCode,         \* -1 while the process runs, else the exit status
  venue,            \* quantities actually held at the venue, per market
  currentPosition,  \* the ledger
  cycleCount,
  isCycleRunning,
  cycleInterval,    \* TRUE when the interval timer is armed, FALSE for null
  isShuttingDown,
  shutPc,           \* position of shutdownSystem(): idle, wait, close, unsub
  cyc,              \* local state of each admitted executeTradingCycle call
  legs,             \* order submissions (placeOrder calls) not yet forgotten
  cycleLog,         \* last line logged at the entry of executeTradingCycle:
                    \* "skip" (previous cycle still running) or "start"
  reconcileLog,     \* what reconcilePositionState logged: none/restored/nopos/error
  reconcileCount,   \* number of reconcilePositionState calls
  lastOutcome,      \* how the most recent cycle ended
  opLedger,         \* per caller: the ledger when its open/close call started
  configOk,         \* the environment holds the RPC endpoints and the key
  fetchLog,         \* what the last pair of candle fetches returned
  liquidityLog,     \* the results the last liquidity validation received
  probe,            \* a function of the program applied in isolation, or NoProbe
  feed              \* the environment of the convergence check: whether every
                    \* call succeeds from now on, and the signal the bars give

programVars ==
  <<mainPc, exitCode, venue, currentPosition, cycleCount, isCycleRunning,
    cycleInterval, isShuttingDown, shutPc, cyc, legs, cycleLog,
    reconcileLog, reconcileCount, lastOutcome, opLedger, liquidityLog,
    configOk, fetchLog>>

vars == <<programVars, probe, feed>>

\* openPosition has not validated liquidity yet: no request was made
\* (index.ts 376-379)
NoLiquidity ==
  [m \in Markets |->
     [threw |-> FALSE, requests |-> 0,
      canFill |-> FALSE, infinite |-> FALSE, num |-> 0, den |-> 1]]

\* no candle fetch has returned yet (index.ts 500-503)
NoFetch == [m \in Markets |-> [status |-> "none", records |-> <<>>]]

\* no function is being applied in isolation: the program itself runs
NoProbe == [fn |-> "none"]

Running == exitCode = 0 - 1

(* ---------------- retryWithBackoff ------------------------------------- *)
\* variant of Pow2: the delay grows linearly
Pow2_linear(n) == n + 1

RECURSIVE Pow2(_)
Pow2(n) == IF n = 0 THEN 1 ELSE 2 * Pow2(n - 1)

\* the behaviours of a wrapped function over the attempts of one call:
\* fn[k] = TRUE when attempt k returns, FALSE when it throws.  One behaviour
\* per attempt at which the function first returns, and the one that never does
AttemptOutcomes ==
  { [k \in 1 .. MAX_RETRIES |-> k >= first] : first \in 1 .. (MAX_RETRIES + 1) }

\* variant of retryWithBackoff: the delay is slept after the last attempt too
RECURSIVE retryWithBackoff_sleepsLast(_, _, _, _)
retryWithBackoff_sleepsLast(fn, maxRetries, attempt, sleeps) ==
  IF attempt > maxRetries
  THEN [ok |-> FALSE, attempt |-> 0, sleeps |-> sleeps]
  ELSE IF fn[attempt]
  THEN [ok |-> TRUE, attempt |-> attempt, sleeps |-> sleeps]
  ELSE IF attempt = maxRetries
  THEN [ok |-> FALSE, attempt |-> attempt,
        sleeps |-> Append(sleeps, RETRY_DELAY_MS * Pow2(attempt - 1))]
  ELSE retryWithBackoff_sleepsLast(
         fn, maxRetries, attempt + 1,
         Append(sleeps, RETRY_DELAY_MS * Pow2(attempt - 1)))

\* retryWithBackoff (index.ts 58-72), from attempt `attempt` on; sleeps is the
\* sequence of delays slept so far.  The result names the attempt whose value
\* is returned (ok) or whose error is thrown (~ok).
RECURSIVE retryWithBackoff(_, _, _, _)
retryWithBackoff(fn, maxRetries, attempt, sleeps) ==
  IF attempt > maxRetries
  THEN [ok |-> FALSE, attempt |-> 0, sleeps |-> sleeps]
  ELSE IF fn[attempt]
  THEN [ok |-> TRUE, attempt |-> attempt, sleeps |-> sleeps]
  ELSE IF attempt = maxRetries
  THEN [ok |-> FALSE, attempt |-> attempt, sleeps |-> sleeps]
  ELSE retryWithBackoff(fn, maxRetries, attempt + 1,
                        Append(sleeps, RETRY_DELAY_MS * Pow2(attempt - 1)))

(* ---------------- reconcilePositionState -------------------------------- *)
\* symbols present in marketMap (PerpMarkets of the environment)
KnownMarkets == {"DRIFT", "KMNO", "SOL"}

\* the perpPositions array of the user account for venue holdings v: the two
\* traded markets, an unrelated open position and one in an unlisted market
perpPositions(v) ==
  << [symbol |-> "SOL", baseAssetAmount |-> 5],
     [symbol |-> "DRIFT", baseAssetAmount |-> v.DRIFT],
     [symbol |-> "UNLISTED", baseAssetAmount |-> 7],
     [symbol |-> "KMNO", baseAssetAmount |-> v.KMNO] >>

\* the for-loop over positions (index.ts 83-97)
RECURSIVE ReconcileScan(_, _, _, _)
ReconcileScan(positions, i, drift, kmno) ==
  IF i > Len(positions)
  THEN [drift |-> drift, kmno |-> kmno]
  ELSE LET pos == positions[i]
       IN IF pos.baseAssetAmount = 0
          THEN ReconcileScan(positions, i + 1, drift, kmno)
          ELSE IF pos.symbol \notin KnownMarkets
          THEN ReconcileScan(positions, i + 1, drift, kmno)
          ELSE ReconcileScan(positions, i + 1,
                 IF pos.symbol = "DRIFT" THEN pos.baseAssetAmount ELSE drift,
                 IF pos.symbol = "KMNO" THEN pos.baseAssetAmount ELSE kmno)

\* variant of ReconcileSignal with the two sign tests exchanged
ReconcileSignal_swapped(drift, kmno) ==
  IF drift > 0 /\ kmno < 0 THEN 0 - 1
  ELSE IF drift < 0 /\ kmno > 0 THEN 1
  ELSE 0

\* signal derived from the scanned quantities (index.ts 101-103)
ReconcileSignal(drift, kmno) ==
  IF drift > 0 /\ kmno < 0 THEN 1
  ELSE IF drift < 0 /\ kmno > 0 THEN 0 - 1
  ELSE 0

\* the ledger value written when the positions were read (index.ts 99-110)
ReconciledPosition(v) ==
  LET r == ReconcileScan(perpPositions(v), 1, 0, 0)
  IN IF r.drift # 0 \/ r.kmno # 0
     THEN Position(r.drift, r.kmno, ReconcileSignal(r.drift, r.kmno))
     ELSE NullPosition

(* ---------------- checkLiquidity --------------------------------------- *)
\* variant of DepthWalk: each level is taken whole
RECURSIVE DepthWalk_wholeLevels(_, _, _, _, _)
DepthWalk_wholeLevels(orders, i, orderSize, totalSize, totalValue) ==
  IF i > Len(orders)
  THEN [totalSize |-> totalSize, totalValue |-> totalValue]
  ELSE LET fillSize == orders[i].size
           ts == totalSize + fillSize
           tv == totalValue + fillSize * orders[i].price
       IN IF ts >= orderSize
          THEN [totalSize |-> ts, totalValue |-> tv]
          ELSE DepthWalk_wholeLevels(orders, i + 1, orderSize, ts, tv)

\* the loop over the book levels (index.ts 258-274)
RECURSIVE DepthWalk(_, _, _, _, _)
DepthWalk(orders, i, orderSize, totalSize, totalValue) ==
  IF i > Len(orders)
  THEN [totalSize |-> totalSize, totalValue |-> totalValue]
  ELSE LET fillSize == Min(orders[i].size, orderSize - totalSize)
           ts == totalSize + fillSize
           tv == totalValue + fillSize * orders[i].price
       IN IF ts >= orderSize
          THEN [totalSize |-> ts, totalValue |-> tv]
          ELSE DepthWalk(orders, i + 1, orderSize, ts, tv)

\* the value checkLiquidity returns: estimatedSlippage is the fraction
\* num/den, or +Infinity when infinite; threw = FALSE: it is returned, not
\* thrown; requests counts the fetches made (index.ts 245, 282, 294, 300)
Unfillable ==
  [threw |-> FALSE, requests |-> 1,
   canFill |-> FALSE, infinite |-> TRUE, num |-> 0, den |-> 1]

\* variant of checkLiquidity: the catch block rethrows
checkLiquidity_rethrows(ok, orders, orderSize) ==
  IF ~ok
  THEN [Unfillable EXCEPT !.threw = TRUE]
  ELSE LET bestPrice == IF Len(orders) > 0 THEN orders[1].price ELSE 0
           w == DepthWalk(orders, 1, orderSize, 0, 0)
       IN IF w.totalSize < orderSize
          THEN Unfillable
          ELSE [threw |-> FALSE, requests |-> 1,
                canFill |-> TRUE, infinite |-> FALSE,
                num |-> Abs(w.totalValue - bestPrice * w.totalSize),
                den |-> bestPrice * w.totalSize]

\* variant of checkLiquidity: a book holding exactly the order size is refused
checkLiquidity_needsMore(ok, orders, orderSize) ==
  IF ~ok
  THEN Unfillable
  ELSE LET bestPrice == IF Len(orders) > 0 THEN orders[1].price ELSE 0
           w == DepthWalk(orders, 1, orderSize, 0, 0)
       IN IF w.totalSize <= orderSize
          THEN Unfillable
          ELSE [threw |-> FALSE, requests |-> 1,
                canFill |-> TRUE, infinite |-> FALSE,
                num |-> Abs(w.totalValue - bestPrice * w.totalSize),
                den |-> bestPrice * w.totalSize]

\* checkLiquidity (index.ts 241-302); ok = FALSE: the request failed or the
\* response was not OK, and the catch block returns
checkLiquidity(ok, orders, orderSize) ==
  IF ~ok
  THEN Unfillable
  ELSE LET bestPrice == IF Len(orders) > 0 THEN orders[1].price ELSE 0
           w == DepthWalk(orders, 1, orderSize, 0, 0)
       IN IF w.totalSize < orderSize
          THEN Unfillable
          ELSE \* avgPrice = totalValue / totalSize,
               \* bestSlippage = |avgPrice - bestPrice| / bestPrice
               [threw |-> FALSE, requests |-> 1,
                canFill |-> TRUE, infinite |-> FALSE,
                num |-> Abs(w.totalValue - bestPrice * w.totalSize),
                den |-> bestPrice * w.totalSize]

\* variant of SlippageExceeds: an infinite estimate passes the threshold
SlippageExceeds_finiteOnly(liq, bps) ==
  ~liq.infinite /\ liq.num * 10000 > bps * liq.den

\* estimatedSlippage > bps / 10000 (index.ts 392-402)
SlippageExceeds(liq, bps) ==
  liq.infinite \/ liq.num * 10000 > bps * liq.den

(* ---------------- signal ------------------------------------------------ *)
\* spread = driftPrice - PRICE_RATIO * kmnoPrice (index.ts 514)
Spread(priceA, priceB, ratio) == priceA - ratio * priceB

\* variant of SignalOf: a zero spread is treated as a negative one
SignalOf_zeroIsLong(spread) ==
  IF spread <= 0 THEN 1 ELSE 0 - 1

\* spread < 0 ? 1 : spread > 0 ? -1 : 0 (index.ts 515)
SignalOf(spread) ==
  IF spread < 0 THEN 1 ELSE IF spread > 0 THEN 0 - 1 ELSE 0

\* the signal of a cycle from the fetched records: the candles at index
\* SIGNAL_LAG_PERIODS, 0-based (index.ts 511-515)
ComputeSignal(driftCandles, kmnoCandles) ==
  LET driftPrice == driftCandles[SIGNAL_LAG_PERIODS + 1]
      kmnoPrice == kmnoCandles[SIGNAL_LAG_PERIODS + 1]
  IN SignalOf(Spread(driftPrice, kmnoPrice, PRICE_RATIO))

(* ---------------- local state of a cycle ------------------------------- *)
IdleCycle ==
  [pc |-> "idle", boot |-> FALSE, signal |-> 0, path |-> "none",
   after |-> "none"]
DoneCycle == [IdleCycle EXCEPT !.pc = "done"]

Cycles == 1 .. MaxCycles
\* callers of openPosition / closePosition: the cycles and the shutdown path
Owners == Cycles \cup {ShutdownOwner}
ActiveCycles == { c \in Cycles : cyc[c].pc \notin {"idle", "done"} }

(* ---------------- Init -------------------------------------------------- *)
\* the module-level state of index.ts when main() is called (index.ts 42-49,
\* 627), with the account as the venue holds it
ProgramStart ==
  /\ mainPc = "start"
  /\ exitCode = 0 - 1
  /\ venue \in VenueStarts
  /\ currentPosition = NullPosition
  /\ cycleCount = 0
  /\ isCycleRunning = FALSE
  /\ cycleInterval = FALSE
  /\ isShuttingDown = FALSE
  /\ shutPc = "idle"
  /\ cyc = [c \in Cycles |-> IdleCycle]
  /\ legs = {}
  /\ cycleLog = "none"
  /\ reconcileLog = "none"
  /\ reconcileCount = 0
  /\ lastOutcome = "none"
  /\ opLedger = [o \in Owners |-> NullPosition]
  /\ liquidityLog = NoLiquidity
  /\ configOk \in BOOLEAN
  /\ fetchLog = NoFetch

\* the environment when no condition is put on it
NoFeed == [healthy |-> FALSE, signal |-> 0]

Init ==
  /\ ProgramStart
  /\ probe = NoProbe
  /\ feed = NoFeed

(* ---------------- order legs -------------------------------------------- *)
\* one placeOrder call: direction 1 = LONG, -1 = SHORT
Leg(owner, phase, market, direction, quantity, reduceOnly) ==
  [owner |-> owner, phase |-> phase, market |-> market, direction |-> direction,
   quantity |-> quantity, reduceOnly |-> reduceOnly, status |-> "inflight"]

\* variant of CloseLegs: the orders are not flagged reduce-only
CloseLegs_plain(owner, pos) ==
  (IF pos.drift # 0
   THEN { Leg(owner, "close", "DRIFT", IF pos.drift > 0 THEN 0 - 1 ELSE 1,
              Abs(pos.drift), FALSE) }
   ELSE {})
  \cup
  (IF pos.kmno # 0
   THEN { Leg(owner, "close", "KMNO", IF pos.kmno > 0 THEN 0 - 1 ELSE 1,
              Abs(pos.kmno), FALSE) }
   ELSE {})

\* variant of CloseLegs: only the DRIFT leg is closed
CloseLegs_driftOnly(owner, pos) ==
  IF pos.drift # 0
  THEN { Leg(owner, "close", "DRIFT", IF pos.drift > 0 THEN 0 - 1 ELSE 1,
             Abs(pos.drift), TRUE) }
  ELSE {}

\* the placeOrder calls of closePosition for ledger value pos (index.ts 439-473)
CloseLegs(owner, pos) ==
  (IF pos.drift # 0
   THEN { Leg(owner, "close", "DRIFT", IF pos.drift > 0 THEN 0 - 1 ELSE 1,
              Abs(pos.drift), TRUE) }
   ELSE {})
  \cup
  (IF pos.kmno # 0
   THEN { Leg(owner, "close", "KMNO", IF pos.kmno > 0 THEN 0 - 1 ELSE 1,
              Abs(pos.kmno), TRUE) }
   ELSE {})

\* variant of OpenLegs: both legs are opened in the direction of the signal
OpenLegs_sameDirection(owner, signal) ==
  { Leg(owner, "open", "DRIFT", IF signal > 0 THEN 1 ELSE 0 - 1,
        DRIFT_QUANTITY, FALSE),
    Leg(owner, "open", "KMNO", IF signal > 0 THEN 1 ELSE 0 - 1,
        KMNO_QUANTITY, FALSE) }

\* the placeOrder calls of openPosition (index.ts 362-363, 409-412)
OpenLegs(owner, signal) ==
  { Leg(owner, "open", "DRIFT", IF signal > 0 THEN 1 ELSE 0 - 1,
        DRIFT_QUANTITY, FALSE),
    Leg(owner, "open", "KMNO", IF signal > 0 THEN 0 - 1 ELSE 1,
        KMNO_QUANTITY, FALSE) }

\* variant of ClosedPosition: closePosition zeroes the ledger's fields
\* instead of setting it to null
ClosedPosition_zeroed == Position(0, 0, 0)

\* variant of ClosedPosition: closePosition forgets to clear the ledger
ClosedPosition_stale == currentPosition

\* the ledger value closePosition writes on success (index.ts 476)
ClosedPosition == NullPosition

\* variant of OpenedPosition: the signal is not written to the ledger
OpenedPosition_unsigned(signal) ==
  Position(signal * DRIFT_QUANTITY, (0 - signal) * KMNO_QUANTITY, 0)

\* the ledger value openPosition writes on success (index.ts 414-418)
OpenedPosition(signal) ==
  Position(signal * DRIFT_QUANTITY, (0 - signal) * KMNO_QUANTITY, signal)

\* effect of a confirmed market order on the venue account; a reduce-only
\* order only moves an opposite-signed holding towards zero
ApplyOrder(v, l) ==
  LET cur == v[l.market]
      delta == IF l.reduceOnly
               THEN IF Sign(cur) = 0 - l.direction
                    THEN l.direction * Min(l.quantity, Abs(cur))
                    ELSE 0
               ELSE l.direction * l.quantity
  IN [v EXCEPT ![l.market] = cur + delta]

LegsOf(ls, owner, phase) == { l \in ls : l.owner = owner /\ l.phase = phase }

\* variant of PhaseResolved: resolves with the first confirmed leg
\* (Promise.any in place of Promise.all)
PhaseResolved_any(ls, owner, phase) ==
  \E l \in LegsOf(ls, owner, phase) : l.status = "confirmed"

\* Promise.all over the legs of a phase, given the legs ls: resolved when
\* every leg confirmed, rejected as soon as one leg has exhausted its retries
PhaseResolved(ls, owner, phase) ==
  \A l \in LegsOf(ls, owner, phase) : l.status = "confirmed"
PhaseRejected(ls, owner, phase) ==
  \E l \in LegsOf(ls, owner, phase) : l.status = "failed"

\* is the caller of this leg still awaiting its Promise.all
OwnerAwaits(l) ==
  IF l.owner = ShutdownOwner
  THEN shutPc = "close"
  ELSE cyc[l.owner].pc = l.phase

\* placeOrder (index.ts 305-356): leg l once retryWithBackoff around
\* placePerpOrder, whose attempts behave as fn, has returned or thrown
placeOrder(l, fn) ==
  LET r == retryWithBackoff(fn, MAX_RETRIES, 1, <<>>)
  IN [l EXCEPT !.status = IF r.ok THEN "confirmed" ELSE "failed"]

\* the venue account after leg l settled as `settled`
VenueAfter(l, settled) ==
  IF settled.status = "confirmed" THEN ApplyOrder(venue, l) ELSE venue

(* ---------------- executeTradingCycle ----------------------------------- *)
\* the state a newly admitted cycle starts in (index.ts 491-503)
AdmittedCycle(boot) ==
  [IdleCycle EXCEPT !.pc = "fetch", !.boot = boot, !.after = lastOutcome]

\* variant of executeTradingCycle: cycleCount++ moved above the guard
executeTradingCycle_countsSkips(boot) ==
  /\ cycleCount < MaxCycles
  /\ cycleCount' = cycleCount + 1
  /\ IF isCycleRunning
     THEN /\ cycleLog' = "skip"
          /\ UNCHANGED <<isCycleRunning, cyc>>
     ELSE /\ isCycleRunning' = TRUE
          /\ cyc' = [cyc EXCEPT ![cycleCount + 1] = AdmittedCycle(boot)]
          /\ cycleLog' = "start"

\* variant of executeTradingCycle: the isCycleRunning guard is missing
executeTradingCycle_noGuard(boot) ==
  /\ cycleCount < MaxCycles
  /\ isCycleRunning' = TRUE
  /\ cycleCount' = cycleCount + 1
  /\ cyc' = [cyc EXCEPT ![cycleCount + 1] = AdmittedCycle(boot)]
  /\ cycleLog' = "start"

\* entry of executeTradingCycle up to the first await (index.ts 485-503)
executeTradingCycle(boot) ==
  IF isCycleRunning
  THEN /\ cycleLog' = "skip"
       /\ UNCHANGED <<isCycleRunning, cycleCount, cyc>>
  ELSE /\ cycleCount < MaxCycles
       /\ isCycleRunning' = TRUE
       /\ cycleCount' = cycleCount + 1
       /\ cyc' = [cyc EXCEPT ![cycleCount + 1] = AdmittedCycle(boot)]
       /\ cycleLog' = "start"

\* what the history variable lastOutcome keeps of the way a cycle ended:
\* an operation that threw because a leg exhausted its retries, a flip whose
\* open phase was refused or threw, or anything else
RecordedOutcome(outcome) ==
  IF outcome \in {"closeFailed", "openFailed"} THEN "opFailed"
  ELSE IF outcome \in {"flipOpenFailed", "flipOpenRejected"}
  THEN "flipOpenFailed"
  ELSE "other"

\* variant of FinishCycle: isCycleRunning is cleared at the end of the try
\* block, not in a finally clause
FinishCycle_noFinally(c, outcome, legsNow) ==
  /\ cyc' = [cyc EXCEPT ![c] = DoneCycle]
  /\ isCycleRunning' = (outcome \in {"fetchFailed", "closeFailed",
                                      "openFailed", "flipOpenFailed",
                                      "openRejected", "flipOpenRejected"})
  /\ lastOutcome' = RecordedOutcome(outcome)
  /\ legs' = { l \in legsNow : l.owner # c \/ l.status = "inflight" }
  /\ opLedger' = [opLedger EXCEPT ![c] = NullPosition]
  /\ IF cyc[c].boot
     THEN cycleInterval' = TRUE /\ mainPc' = "done"
     ELSE UNCHANGED <<cycleInterval, mainPc>>

\* catch/finally of executeTradingCycle (index.ts 544-548); when the call was
\* the bootstrap cycle, main() resumes in the same turn and arms the timer
\* (index.ts 681)
FinishCycle(c, outcome, legsNow) ==
  /\ cyc' = [cyc EXCEPT ![c] = DoneCycle]
  /\ isCycleRunning' = FALSE
  /\ lastOutcome' = RecordedOutcome(outcome)
  /\ legs' = { l \in legsNow : l.owner # c \/ l.status = "inflight" }
  /\ opLedger' = [opLedger EXCEPT ![c] = NullPosition]
  /\ IF cyc[c].boot
     THEN cycleInterval' = TRUE /\ mainPc' = "done"
     ELSE UNCHANGED <<cycleInterval, mainPc>>

\* variant of AbortCycle: the early end of a cycle leaves isCycleRunning set
AbortCycle_keepsRunning(c, outcome) ==
  /\ cyc' = [cyc EXCEPT ![c] = DoneCycle]
  /\ lastOutcome' = RecordedOutcome(outcome)
  /\ opLedger' = [opLedger EXCEPT ![c] = NullPosition]
  /\ IF cyc[c].boot
     THEN cycleInterval' = TRUE /\ mainPc' = "done"
     ELSE UNCHANGED <<cycleInterval, mainPc>>
  /\ UNCHANGED <<isCycleRunning, legs>>

\* variant of AbortCycle: a cycle without usable bars unwinds the position
AbortCycle_closes(c, outcome) ==
  FinishCycle(c, outcome, legs \cup CloseLegs(c, currentPosition))

\* the cycle ends before any trading call: a fetch threw (index.ts 544-548)
\* or the validation returned early (index.ts 507-509)
AbortCycle(c, outcome) == FinishCycle(c, outcome, legs)

\* the cycle stays suspended at the await named by pc, inside a call of
\* closePosition / openPosition that started when the ledger was `ledger`
Suspend(c, pc, signal, path, ledger) ==
  /\ cyc' = [cyc EXCEPT ![c].pc = pc, ![c].signal = signal, ![c].path = path]
  /\ opLedger' = [opLedger EXCEPT ![c] = ledger]
  /\ UNCHANGED <<isCycleRunning, lastOutcome, cycleInterval, mainPc>>

\* variant of Flips: any open position is closed, whatever the signal
Flips_always(position, signal) == ~position.isNull

\* the ledger holds a position whose signal is not the computed one
\* (index.ts 529)
Flips(position, signal) ==
  ~position.isNull /\ position.signal # signal

\* fetchCandleData (index.ts 227-238): retryWithBackoff around one request,
\* whose attempts behave as fn; returns the records of the response or throws
fetchCandleData(fn, response) ==
  LET r == retryWithBackoff(fn, MAX_RETRIES, 1, <<>>)
  IN IF r.ok THEN [status |-> "ok", records |-> response]
             ELSE [status |-> "failed", records |-> <<>>]

\* what a call of fetchCandleData can return or throw, per market, over the
\* behaviours of the endpoint
FetchResults ==
  [m \in Markets |->
     { fetchCandleData(fn, response) :
         fn \in AttemptOutcomes, response \in CandleResponses[m] }]

\* Promise.all of the two fetches settles; validation, signal and the
\* trading decision up to the next await (index.ts 500-535).  The fetches
\* touch no program state, so their attempts are not separate steps.
FetchJoin(c) ==
  /\ Running
  /\ cyc[c].pc = "fetch"
  /\ \E driftCandles \in FetchResults.DRIFT,
        kmnoCandles \in FetchResults.KMNO :
        /\ fetchLog' = [DRIFT |-> driftCandles, KMNO |-> kmnoCandles]
        /\ IF driftCandles.status = "failed" \/ kmnoCandles.status = "failed"
           THEN AbortCycle(c, "fetchFailed")
           ELSE IF \/ Len(driftCandles.records) < SIGNAL_LAG_PERIODS + 1
                   \/ Len(kmnoCandles.records) < SIGNAL_LAG_PERIODS + 1
           THEN AbortCycle(c, "insufficient")
           ELSE LET signal == ComputeSignal(driftCandles.records,
                                            kmnoCandles.records)
                IN IF currentPosition.isNull /\ signal # 0
                   THEN /\ Suspend(c, "liquidity", signal, "open",
                                   currentPosition)
                        /\ UNCHANGED legs
                   ELSE IF Flips(currentPosition, signal)
                   THEN /\ Suspend(c, "close", signal, "close",
                                   currentPosition)
                        /\ legs' = legs \cup CloseLegs(c, currentPosition)
                   ELSE FinishCycle(c, "hold", legs)
  /\ UNCHANGED <<probe, feed, configOk, liquidityLog, exitCode, venue, currentPosition, cycleCount, isShuttingDown,
                 shutPc, cycleLog, reconcileLog, reconcileCount>>

\* variant of CloseContinues: a failed order does not end closePosition, which
\* keeps waiting for the other leg
CloseContinues_waitsOnFailure(c, legsNow) ==
  IF PhaseResolved(legsNow, c, "close")
  THEN /\ currentPosition' = ClosedPosition
       /\ IF cyc[c].signal # 0
          THEN /\ Suspend(c, "liquidity", cyc[c].signal, cyc[c].path,
                          ClosedPosition)
               /\ legs' = legsNow
          ELSE FinishCycle(c, "closed", legsNow)
  ELSE /\ legs' = legsNow
       /\ UNCHANGED <<currentPosition, cyc, opLedger, isCycleRunning,
                      lastOutcome, cycleInterval, mainPc>>

\* closePosition inside cycle c after one of its legs settled (index.ts
\* 475-481): Promise.all rejects, resolves or keeps waiting; on success the
\* cycle goes on to openPosition or ends (index.ts 531-548)
CloseContinues(c, legsNow) ==
  IF PhaseRejected(legsNow, c, "close")
  THEN /\ FinishCycle(c, "closeFailed", legsNow)
       /\ UNCHANGED currentPosition
  ELSE IF PhaseResolved(legsNow, c, "close")
  THEN /\ currentPosition' = ClosedPosition
       /\ IF cyc[c].signal # 0
          THEN /\ Suspend(c, "liquidity", cyc[c].signal, cyc[c].path,
                          ClosedPosition)
               /\ legs' = legsNow
          ELSE FinishCycle(c, "closed", legsNow)
  ELSE /\ legs' = legsNow
       /\ UNCHANGED <<currentPosition, cyc, opLedger, isCycleRunning,
                      lastOutcome, cycleInterval, mainPc>>

\* openPosition inside cycle c after one of its legs settled (index.ts
\* 409-424), then the end of the cycle
OpenContinues(c, legsNow) ==
  IF PhaseRejected(legsNow, c, "open")
  THEN /\ FinishCycle(c, IF cyc[c].path = "open" THEN "openFailed"
                                                 ELSE "flipOpenFailed", legsNow)
       /\ UNCHANGED currentPosition
  ELSE IF PhaseResolved(legsNow, c, "open")
  THEN /\ currentPosition' = OpenedPosition(cyc[c].signal)
       /\ FinishCycle(c, IF cyc[c].path = "open" THEN "opened" ELSE "flipped",
                      legsNow)
  ELSE /\ legs' = legsNow
       /\ UNCHANGED <<currentPosition, cyc, opLedger, isCycleRunning,
                      lastOutcome, cycleInterval, mainPc>>

\* a placeOrder call of the running cycle c settles and the cycle resumes
\* if its Promise.all settles with it
CycleLegSettle(c, l) ==
  /\ Running
  /\ l \in legs
  /\ l.status = "inflight"
  /\ l.owner = c
  /\ cyc[c].pc = l.phase
  /\ \E settled \in { placeOrder(l, fn) : fn \in AttemptOutcomes } :
       LET legsNow == (legs \ {l}) \cup {settled}
       IN /\ venue' = VenueAfter(l, settled)
          /\ IF l.phase = "close"
             THEN CloseContinues(c, legsNow)
             ELSE OpenContinues(c, legsNow)
  /\ UNCHANGED <<probe, feed, configOk, fetchLog, liquidityLog, exitCode, cycleCount, isShuttingDown, shutPc, cycleLog, reconcileLog, reconcileCount>>

\* a placeOrder call settles whose caller has already been rejected: the
\* order was not cancelled and still takes effect at the venue
OrphanLegSettle(l) ==
  /\ Running
  /\ l \in legs
  /\ l.status = "inflight"
  /\ ~OwnerAwaits(l)
  /\ \E settled \in { placeOrder(l, fn) : fn \in AttemptOutcomes } :
       venue' = VenueAfter(l, settled)
  /\ legs' = legs \ {l}
  /\ UNCHANGED <<probe, feed, configOk, fetchLog, liquidityLog, mainPc, exitCode, currentPosition, cycleCount, isCycleRunning,
                 cycleInterval, isShuttingDown, shutPc, cyc, cycleLog,
                 reconcileLog, reconcileCount, lastOutcome, opLedger>>

\* what the checkLiquidity calls of openPosition can return, per market, over
\* the behaviours of the DLOB endpoint (index.ts 377-378)
LiquidityResults ==
  [m \in Markets |->
     { checkLiquidity(ok, orders,
                      IF m = "DRIFT" THEN DRIFT_QUANTITY ELSE KMNO_QUANTITY) :
         ok \in BOOLEAN, orders \in BookResponses[m] }]

\* both checkLiquidity calls of openPosition have returned; slippage
\* validation and submission of the two open legs (index.ts 376-412)
LiquidityDone(c) ==
  /\ Running
  /\ cyc[c].pc = "liquidity"
  /\ \E driftLiquidity \in LiquidityResults.DRIFT,
        kmnoLiquidity \in LiquidityResults.KMNO :
        /\ liquidityLog' = [DRIFT |-> driftLiquidity, KMNO |-> kmnoLiquidity]
        /\ IF \/ SlippageExceeds(driftLiquidity, MAX_SLIPPAGE_BPS)
              \/ SlippageExceeds(kmnoLiquidity, MAX_SLIPPAGE_BPS)
           THEN FinishCycle(c, IF cyc[c].path = "open"
                               THEN "openRejected" ELSE "flipOpenRejected",
                            legs)
           ELSE /\ Suspend(c, "open", cyc[c].signal, cyc[c].path,
                           opLedger[c])
                /\ legs' = legs \cup OpenLegs(c, cyc[c].signal)
  /\ UNCHANGED <<probe, feed, configOk, fetchLog, exitCode, venue,
                 currentPosition, cycleCount,
                 isShuttingDown, shutPc, cycleLog, reconcileLog,
                 reconcileCount>>

(* ---------------- shutdownSystem ---------------------------------------- *)
\* after the wait loop: force close or go on to unsubscribe (index.ts 649-655)
ShutdownProceed ==
  IF ~currentPosition.isNull
  THEN /\ shutPc' = "close"
       /\ legs' = legs \cup CloseLegs(ShutdownOwner, currentPosition)
       /\ opLedger' = [opLedger EXCEPT ![ShutdownOwner] = currentPosition]
  ELSE /\ shutPc' = "unsub"
       /\ UNCHANGED <<legs, opLedger>>

\* variant of shutdownSystem: the isShuttingDown guard is missing
shutdownSystem_noGuard ==
  /\ isShuttingDown' = TRUE
  /\ cycleInterval' = FALSE
  /\ IF isCycleRunning
     THEN shutPc' = "wait" /\ UNCHANGED <<legs, opLedger>>
     ELSE ShutdownProceed

\* SIGINT / SIGTERM handler (index.ts 629-647)
shutdownSystem ==
  IF isShuttingDown
  THEN UNCHANGED <<isShuttingDown, cycleInterval, shutPc, legs, opLedger>>
  ELSE /\ isShuttingDown' = TRUE
       /\ cycleInterval' = FALSE
       /\ IF isCycleRunning
          THEN shutPc' = "wait" /\ UNCHANGED <<legs, opLedger>>
          ELSE ShutdownProceed

\* a termination signal arrives once the handlers are registered
TerminationSignal ==
  /\ Running
  /\ mainPc \in {"bootstrap", "done"}
  /\ shutdownSystem
  /\ UNCHANGED <<probe, feed, configOk, fetchLog, liquidityLog, mainPc, exitCode, venue, currentPosition, cycleCount,
                 isCycleRunning, cyc, cycleLog, reconcileLog,
                 reconcileCount, lastOutcome>>

\* a termination signal before process.on() has run ends the process
SignalBeforeHandlers ==
  /\ Running
  /\ mainPc \in {"start", "reconcile", "ready"}
  /\ exitCode' = 130
  /\ UNCHANGED <<probe, feed, configOk, fetchLog, liquidityLog, mainPc, venue, currentPosition, cycleCount, isCycleRunning,
                 cycleInterval, isShuttingDown, shutPc, cyc, legs, cycleLog, reconcileLog, reconcileCount, lastOutcome,
                 opLedger>>

\* the sleep(1000) of the wait loop returns and no cycle is running
ShutdownPoll ==
  /\ Running
  /\ shutPc = "wait"
  /\ ~isCycleRunning
  /\ ShutdownProceed
  /\ UNCHANGED <<probe, feed, configOk, fetchLog, liquidityLog, mainPc, exitCode, venue, currentPosition, cycleCount,
                 isCycleRunning, cycleInterval, isShuttingDown, cyc, cycleLog, reconcileLog, reconcileCount, lastOutcome>>

\* a placeOrder call of the forced closePosition settles (index.ts 651);
\* a rejection is caught and the process exits (index.ts 659-663)
ShutdownLegSettle(l) ==
  /\ Running
  /\ l \in legs
  /\ l.status = "inflight"
  /\ l.owner = ShutdownOwner
  /\ shutPc = "close"
  /\ \E settled \in { placeOrder(l, fn) : fn \in AttemptOutcomes } :
       LET legsNow == (legs \ {l}) \cup {settled}
       IN /\ venue' = VenueAfter(l, settled)
          /\ legs' = legsNow
          /\ IF PhaseRejected(legsNow, ShutdownOwner, "close")
             THEN /\ exitCode' = 0
                  /\ UNCHANGED <<currentPosition, shutPc>>
             ELSE IF PhaseResolved(legsNow, ShutdownOwner, "close")
             THEN /\ currentPosition' = ClosedPosition
                  /\ shutPc' = "unsub"
                  /\ UNCHANGED exitCode
             ELSE UNCHANGED <<currentPosition, shutPc, exitCode>>
  /\ UNCHANGED <<probe, feed, configOk, fetchLog, liquidityLog, mainPc, cycleCount, isCycleRunning, cycleInterval,
                 isShuttingDown, cyc, cycleLog, reconcileLog,
                 reconcileCount, lastOutcome, opLedger>>

\* driftClient.unsubscribe() returns or throws; process.exit(0) either way
ShutdownExit ==
  /\ Running
  /\ shutPc = "unsub"
  /\ exitCode' = 0
  /\ UNCHANGED <<probe, feed, configOk, fetchLog, liquidityLog, mainPc, venue, currentPosition, cycleCount, isCycleRunning,
                 cycleInterval, isShuttingDown, shutPc, cyc, legs, cycleLog, reconcileLog, reconcileCount, lastOutcome,
                 opLedger>>

(* ---------------- main -------------------------------------------------- *)
\* variant of InitializeSystem: a failure is logged and main() goes on
InitializeSystem_swallows ==
  /\ Running
  /\ mainPc = "start"
  /\ mainPc' = "reconcile"
  /\ UNCHANGED <<probe, feed, configOk, fetchLog, liquidityLog,
                 exitCode, venue, currentPosition, cycleCount,
                 isCycleRunning, cycleInterval, isShuttingDown, shutPc, cyc,
                 legs, cycleLog, reconcileLog, reconcileCount, lastOutcome,
                 opLedger>>

\* config.ts at import (index.ts 1-16, config.ts 11-19), then
\* initializeSystem up to the reconciliation call; any throw is fatal
InitializeSystem ==
  /\ Running
  /\ mainPc = "start"
  /\ \E ok \in BOOLEAN :
       IF configOk /\ ok
       THEN mainPc' = "reconcile" /\ UNCHANGED exitCode
       ELSE exitCode' = 1 /\ UNCHANGED mainPc
  /\ UNCHANGED <<probe, feed, configOk, fetchLog, liquidityLog, venue, currentPosition, cycleCount, isCycleRunning,
                 cycleInterval, isShuttingDown, shutPc, cyc, legs, cycleLog, reconcileLog, reconcileCount, lastOutcome,
                 opLedger>>

\* reconcilePositionState (index.ts 75-114); readOk = FALSE: reading the user
\* account throws and the catch block only logs
Reconcile ==
  /\ Running
  /\ mainPc = "reconcile"
  /\ mainPc' = "ready"
  /\ reconcileCount' = reconcileCount + 1
  /\ IF SIMULATION_MODE
     THEN UNCHANGED <<currentPosition, reconcileLog>>
     ELSE \E readOk \in BOOLEAN :
            IF readOk
            THEN /\ currentPosition' = ReconciledPosition(venue)
                 /\ reconcileLog' = IF ReconciledPosition(venue).isNull
                                    THEN "nopos" ELSE "restored"
            ELSE /\ reconcileLog' = "error"
                 /\ UNCHANGED currentPosition
  /\ UNCHANGED <<probe, feed, configOk, fetchLog, liquidityLog, exitCode, venue, cycleCount, isCycleRunning, cycleInterval,
                 isShuttingDown, shutPc, cyc, legs, cycleLog,
                 lastOutcome,
                 opLedger>>

\* where main() may go on to the bootstrap cycle
ReadyToTrade == mainPc = "ready"

\* handlers registered, bootstrap cycle invoked (index.ts 672-678)
StartTrading ==
  /\ Running
  /\ ReadyToTrade
  /\ executeTradingCycle(TRUE)
  /\ IF isCycleRunning
     THEN mainPc' = "done" /\ cycleInterval' = TRUE
     ELSE mainPc' = "bootstrap" /\ UNCHANGED cycleInterval
  /\ UNCHANGED <<probe, feed, configOk, fetchLog, liquidityLog, exitCode, venue, currentPosition, isShuttingDown, shutPc, legs,
                 reconcileLog, reconcileCount, lastOutcome,
                 opLedger>>

\* the interval timer fires (index.ts 681)
TimerFire ==
  /\ Running
  /\ cycleInterval
  /\ executeTradingCycle(FALSE)
  /\ UNCHANGED <<probe, feed, configOk, fetchLog, liquidityLog, mainPc, exitCode, venue, currentPosition, cycleInterval,
                 isShuttingDown, shutPc, legs, reconcileLog, reconcileCount,
                 lastOutcome,
                 opLedger>>

Next ==
  \/ InitializeSystem
  \/ Reconcile
  \/ StartTrading
  \/ TimerFire
  \/ \E c \in Cycles : FetchJoin(c)
  \/ \E c \in Cycles : LiquidityDone(c)
  \/ \E c \in Cycles, l \in legs : CycleLegSettle(c, l)
  \/ \E l \in legs : OrphanLegSettle(l)
  \/ \E l \in legs : ShutdownLegSettle(l)
  \/ TerminationSignal
  \/ SignalBeforeHandlers
  \/ ShutdownPoll
  \/ ShutdownExit

Spec == Init /\ [][Next]_vars

\* the continuations that run when a pending call returns: the awaits of
\* main, of the cycle, of closePosition / openPosition and of shutdownSystem
\* (the sleep of its wait loop included)
Returns ==
  \/ InitializeSystem
  \/ Reconcile
  \/ StartTrading
  \/ \E c \in Cycles : FetchJoin(c)
  \/ \E c \in Cycles : LiquidityDone(c)
  \/ \E c \in Cycles, l \in legs : CycleLegSettle(c, l)
  \/ \E l \in legs : OrphanLegSettle(l)
  \/ \E l \in legs : ShutdownLegSettle(l)
  \/ ShutdownPoll
  \/ ShutdownExit

\* every pending network call eventually returns
Fairness == WF_vars(Returns)

(* ---------------- the environment recovering ---------------------------- *)
\* the process starts on an account that is Flat or holds one of the two
\* spreads, with its configuration present; the bars will give feed.signal
\* once the environment is healthy
HealInit ==
  /\ ProgramStart
  /\ probe = NoProbe
  /\ configOk
  /\ venue \in { v \in VenueStarts :
                   \/ v.DRIFT = 0 /\ v.KMNO = 0
                   \/ ReconcileSignal(v.DRIFT, v.KMNO) # 0 }
  /\ feed \in [healthy : {FALSE}, signal : {0 - 1, 0, 1}]

\* from this point on every fetch, liquidity check and order succeeds; a
\* cycle can still be admitted afterwards
Heal ==
  /\ Running
  /\ ~feed.healthy
  /\ cycleCount < MaxCycles
  /\ feed' = [feed EXCEPT !.healthy = TRUE]
  /\ UNCHANGED <<programVars, probe>>

\* the step is one of a healthy environment: start-up calls return, the bars
\* arrive and give feed.signal, the books pass the slippage check, and no
\* order fails
Succeeds ==
  /\ exitCode' = exitCode
  /\ reconcileLog' # "error"
  /\ \A c \in Cycles :
       /\ (cyc[c].pc = "fetch" /\ cyc'[c].pc # "fetch")
            => /\ \A m \in Markets :
                    /\ fetchLog'[m].status = "ok"
                    /\ Len(fetchLog'[m].records) >= SIGNAL_LAG_PERIODS + 1
               /\ ComputeSignal(fetchLog'.DRIFT.records,
                                fetchLog'.KMNO.records) = feed.signal
       /\ (cyc[c].pc = "liquidity" /\ cyc'[c].pc # "liquidity")
            => cyc'[c].pc = "open"
       /\ (cyc[c].pc \in {"close", "open"} /\ cyc'[c].pc = "done")
            => lastOutcome' = "other"
  /\ \A l \in legs' : l.status # "failed"

\* a step of the program in the environment described by feed
Healed(A) == A /\ (feed.healthy => Succeeds)

HealNext ==
  \/ Heal
  \/ Healed(InitializeSystem)
  \/ Healed(Reconcile)
  \/ Healed(StartTrading)
  \/ Healed(TimerFire)
  \/ Healed(\E c \in Cycles : FetchJoin(c))
  \/ Healed(\E c \in Cycles : LiquidityDone(c))
  \/ Healed(\E c \in Cycles, l \in legs : CycleLegSettle(c, l))
  \/ Healed(\E l \in legs : OrphanLegSettle(l))

\* the timer keeps firing and every pending call eventually returns
HealFairness ==
  /\ WF_vars(Healed(TimerFire))
  /\ WF_vars(Healed(Returns))

HealSpec == HealInit /\ [][HealNext]_vars /\ HealFairness

\* the starts of the liveness checks: a Flat account or a long spread
FairInit ==
  /\ Init
  /\ venue \in { [DRIFT |-> 0, KMNO |-> 0],
                 [DRIFT |-> DRIFT_QUANTITY, KMNO |-> 0 - KMNO_QUANTITY] }

FairSpec == FairInit /\ [][Next]_vars /\ Fairness

TypeOK ==
  /\ mainPc \in {"start", "reconcile", "ready", "bootstrap", "done"}
  /\ exitCode \in {0 - 1, 0, 1, 130}
  /\ cycleCount \in 0 .. MaxCycles
  /\ isCycleRunning \in BOOLEAN
  /\ cycleInterval \in BOOLEAN
  /\ isShuttingDown \in BOOLEAN
  /\ shutPc \in {"idle", "wait", "close", "unsub"}
  /\ cycleLog \in {"none", "start", "skip"}
  /\ configOk \in BOOLEAN
  /\ feed \in [healthy : BOOLEAN, signal : {0 - 1, 0, 1}]
  /\ \A m \in Markets : fetchLog[m] \in {NoFetch[m]} \cup FetchResults[m]
  /\ \A m \in Markets :
       liquidityLog[m] \in {NoLiquidity[m]} \cup LiquidityResults[m]

(***************************************************************************)
(* Functions of the program applied in isolation                           *)
(***************************************************************************)
\* largest price of the signal inputs
MaxPrice == 12
\* largest maxRetries (and number of attempts described) of the retry inputs
MaxProbeRetries == 4
\* largest number of levels of the order books
MaxLevels == 2
\* largest order size of the liquidity inputs
MaxOrderSize == 12

ProbeRatios == {1, 2, PRICE_RATIO}
ProbeBarPrices == {10, 20, 30}
ProbeLevels == { Level(p, sz) : p \in {100, 101}, sz \in {3, 5} }
ProbeBooks == UNION { [1 .. n -> ProbeLevels] : n \in 0 .. MaxLevels }

\* inputs of the spread / signal expression
SignalProbes ==
  [fn : {"signal"}, priceA : 0 .. MaxPrice, priceB : 0 .. MaxPrice,
   ratio : ProbeRatios, done : {FALSE}, out : {0}]

\* records returned by the candle endpoint, the KMNO price held constant
LagProbes ==
  [fn : {"lag"},
   driftCandles : [1 .. (SIGNAL_LAG_PERIODS + 1) -> ProbeBarPrices],
   kmnoCandles : {[i \in 1 .. (SIGNAL_LAG_PERIODS + 1) |-> 2]},
   done : {FALSE}, out : {0}]

\* a wrapped function described by the attempts at which it returns
RetryProbes ==
  [fn : {"retry"}, behaviour : [1 .. MaxProbeRetries -> BOOLEAN],
   maxRetries : 1 .. MaxProbeRetries, done : {FALSE}, out : {0}]

\* an order book, an order size and whether the book could be read
LiquidityProbes ==
  [fn : {"liquidity"}, ok : BOOLEAN, orders : ProbeBooks,
   orderSize : 1 .. MaxOrderSize, done : {FALSE}, out : {0}]

FunctionInit ==
  /\ ProgramStart
  /\ venue = [DRIFT |-> 0, KMNO |-> 0]
  /\ configOk
  /\ feed = NoFeed
  /\ \/ probe \in SignalProbes
     \/ probe \in LagProbes
     \/ probe \in RetryProbes
     \/ probe \in LiquidityProbes

Applied(result) ==
  /\ ~probe.done
  /\ probe' = [probe EXCEPT !.done = TRUE, !.out = result]
  /\ UNCHANGED <<programVars, feed>>

ApplySignal ==
  /\ probe.fn = "signal"
  /\ Applied(SignalOf(Spread(probe.priceA, probe.priceB, probe.ratio)))

ApplyComputeSignal ==
  /\ probe.fn = "lag"
  /\ Applied(ComputeSignal(probe.driftCandles, probe.kmnoCandles))

ApplyRetry ==
  /\ probe.fn = "retry"
  /\ Applied(retryWithBackoff(probe.behaviour, probe.maxRetries, 1, <<>>))

ApplyLiquidity ==
  /\ probe.fn = "liquidity"
  /\ Applied([result |-> checkLiquidity(probe.ok, probe.orders,
                                        probe.orderSize),
              walk |-> DepthWalk(probe.orders, 1, probe.orderSize, 0, 0)])

FunctionNext ==
  \/ ApplySignal
  \/ ApplyComputeSignal
  \/ ApplyRetry
  \/ ApplyLiquidity

FunctionSpec == FunctionInit /\ [][FunctionNext]_vars

(***************************************************************************)
(* Properties                                                              *)
(***************************************************************************)

\* a step in which executeTradingCycle is invoked (by main or by the timer)
CycleTriggered == StartTrading \/ TimerFire

\* a step in which the call of openPosition / closePosition of cycle c throws
\* because a leg exhausted its retries
CycleOpFails(c) ==
  /\ cyc[c].pc \in {"close", "open"}
  /\ cyc'[c].pc = "done"
  /\ lastOutcome' \in {"opFailed", "flipOpenFailed"}

\* a step in which the forced close of the shutdown path throws
ShutdownOpFails ==
  /\ shutPc = "close"
  /\ shutPc' = "close"
  /\ exitCode' = 0

\* a step in which the last pending leg of the operation owner o awaits
\* confirms, all the others having confirmed before
OpConfirms(o) ==
  \E l \in legs :
    /\ l.owner = o
    /\ l.status = "inflight"
    /\ OwnerAwaits(l)
    /\ \A m \in LegsOf(legs, o, l.phase) \ {l} : m.status = "confirmed"
    /\ venue' = ApplyOrder(venue, l)
    /\ Cardinality(LegsOf(legs, o, l.phase)) =
         IF l.phase = "open" THEN 2
         ELSE Cardinality(CloseLegs(o, opLedger[o]))

\* main() is past reconcilePositionState
Reconciled == mainPc \in {"ready", "bootstrap", "done"}

\* the positions were read by reconcilePositionState
ReconcileRead == reconcileLog \in {"restored", "nopos"}

\* the PositionState invariant of a ledger value
WellFormed(pos) ==
  /\ pos.signal = 0 <=> (pos.drift = 0 /\ pos.kmno = 0)
  /\ pos.signal # 0 => (Sign(pos.drift) = pos.signal
                        /\ Sign(pos.kmno) = 0 - pos.signal)

\* venue legs in a combination that is neither a spread nor flat
Anomalous(v) ==
  ~ \/ (v.DRIFT > 0 /\ v.KMNO < 0)
    \/ (v.DRIFT < 0 /\ v.KMNO > 0)
    \/ (v.DRIFT = 0 /\ v.KMNO = 0)

(* C1: single-flight skip.  A trigger of executeTradingCycle that arrives    *)
(* while isCycleRunning is true logs the skip and changes nothing else: no   *)
(* fetch is started, no order is submitted, the ledger, cycleCount and       *)
(* isCycleRunning keep their values; and it is not queued: a cycle is only   *)
(* ever admitted by the trigger step itself, when no cycle is running.       *)
C1_SkipDropsTrigger ==
  [][ /\ (CycleTriggered /\ isCycleRunning)
           => /\ cycleLog' = "skip"
              /\ UNCHANGED <<currentPosition, cycleCount, isCycleRunning, cyc,
                             legs, venue, opLedger, lastOutcome>>
      /\ (\/ cycleCount' # cycleCount
          \/ \E c \in Cycles : cyc[c].pc = "idle" /\ cyc'[c].pc # "idle")
           => (CycleTriggered /\ ~isCycleRunning) ]_vars

C1_Witness ==
  /\ cycleLog = "skip"
  /\ isCycleRunning
  /\ \E c \in Cycles : cyc[c].pc = "open" /\ LegsOf(legs, c, "open") # {}

(* C2: at most one cycle body is executing in every reachable state, and     *)
(* isCycleRunning is true exactly while one is.                              *)
C2_SingleCycleBody ==
  /\ Cardinality(ActiveCycles) <= 1
  /\ isCycleRunning <=> ActiveCycles # {}

C2_Witness ==
  /\ Cardinality(ActiveCycles) = 1
  /\ cycleCount = 2
  /\ cycleLog = "skip"
  /\ isShuttingDown

(* C3: the ledger is written only after full confirmation.  Once trading   *)
(* has started, every step that changes the ledger is the step in which the *)
(* last leg of an openPosition / closePosition call confirms, all its other *)
(* legs having confirmed; and a step in which such a call throws because a  *)
(* leg exhausted its retries leaves the ledger at the value it had when the *)
(* call started.                                                            *)
C3_LedgerAfterConfirmation ==
  [][ /\ (Reconciled /\ currentPosition' # currentPosition)
           => \E o \in Owners : OpConfirms(o)
      /\ \A c \in Cycles : CycleOpFails(c) => currentPosition' = opLedger[c]
      /\ ShutdownOpFails => currentPosition' = opLedger[ShutdownOwner] ]_vars

(* C4: in a flip no open order exists before every close leg confirmed: a   *)
(* cycle on the close path that is at or past its liquidity check, or has   *)
(* an open leg at the venue, has submitted close legs and all of them are   *)
(* confirmed; and a cycle that ends in its close phase has no open leg.     *)
C4_CloseBeforeOpen ==
  /\ [](\A c \in Cycles :
          (cyc[c].path = "close"
           /\ (cyc[c].pc \in {"liquidity", "open"}
               \/ LegsOf(legs, c, "open") # {}))
            => /\ LegsOf(legs, c, "close") # {}
               /\ \A l \in LegsOf(legs, c, "close") : l.status = "confirmed")
  /\ [][ \A c \in Cycles :
           (cyc[c].pc = "close" /\ cyc'[c].pc = "done")
             => LegsOf(legs', c, "open") = {} ]_vars

C4_Witness ==
  \E c \in Cycles :
    /\ cyc[c].path = "close"
    /\ cyc[c].pc = "open"
    /\ Cardinality(LegsOf(legs, c, "close")) = 2
    /\ \E l \in LegsOf(legs, c, "open") : l.status = "inflight"

(* C5: a flip whose close phase confirmed and whose open phase is refused   *)
(* for liquidity or throws ends with a Flat ledger, and the next admitted   *)
(* cycle, when its signal is nonzero, is on the open path: it submits no    *)
(* close leg.                                                               *)
C5_FlipOpenFailure ==
  /\ [][ \A c \in Cycles :
           (/\ cyc[c].path = "close"
            /\ cyc[c].pc \in {"liquidity", "open"}
            /\ cyc'[c].pc = "done"
            /\ lastOutcome' = "flipOpenFailed")
             => currentPosition' = NullPosition ]_vars
  /\ [](\A c \in Cycles :
          (/\ cyc[c].after = "flipOpenFailed"
           /\ cyc[c].signal # 0)
            => /\ cyc[c].path = "open"
               /\ LegsOf(legs, c, "close") = {})

C5_Witness ==
  \E c \in Cycles :
    /\ cyc[c].after = "flipOpenFailed"
    /\ cyc[c].path = "open"
    /\ cyc[c].pc = "open"
    /\ LegsOf(legs, c, "open") # {}

(* C6: PositionState invariant.  In every state after reconciliation the    *)
(* ledger signal is 0 exactly when both quantities are 0, and a nonzero     *)
(* signal is the sign of the DRIFT quantity and minus the sign of the KMNO  *)
(* quantity.                                                                *)
C6_PositionStateInvariant == Reconciled => WellFormed(currentPosition)

(* C7: starting from a reconciled ledger, each time openPosition or         *)
(* closePosition writes the ledger the written quantities are the           *)
(* quantities held at the venue at that moment.                             *)
C7_LedgerMatchesVenue ==
  [][ (Reconciled /\ ReconcileRead /\ currentPosition' # currentPosition)
        => /\ currentPosition'.drift = venue'.DRIFT
           /\ currentPosition'.kmno = venue'.KMNO ]_vars

(* C8: reconciliation signal derivation.  When reconcilePositionState has   *)
(* read venue quantities (a, b), the ledger signal is +1 for a > 0, b < 0,  *)
(* it is -1 for a < 0, b > 0, the ledger is Flat for a = b = 0, and the     *)
(* ledger quantities are (a, b).                                            *)
C8_ReconcileSignal ==
  (mainPc = "ready" /\ ReconcileRead)
    => /\ (venue.DRIFT > 0 /\ venue.KMNO < 0)
            => (~currentPosition.isNull /\ currentPosition.signal = 1)
       /\ (venue.DRIFT < 0 /\ venue.KMNO > 0)
            => (~currentPosition.isNull /\ currentPosition.signal = 0 - 1)
       /\ (venue.DRIFT = 0 /\ venue.KMNO = 0) => currentPosition.isNull
       /\ currentPosition.drift = venue.DRIFT
       /\ currentPosition.kmno = venue.KMNO

C8_Witness ==
  /\ mainPc = "ready"
  /\ reconcileLog = "restored"
  /\ venue.DRIFT < 0
  /\ venue.KMNO > 0
  /\ currentPosition.signal = 0 - 1

(* C9: reconciliation anomaly.  When reconciliation has read venue legs     *)
(* that are neither a spread nor flat, an anomaly is reported, the process  *)
(* has halted or the ledger is Flat, and no trading cycle is ever admitted  *)
(* while the ledger carries quantities under an inferred signal 0.          *)
C9_AnomalyHalts ==
  /\ (mainPc = "ready" /\ ReconcileRead /\ Anomalous(venue))
       => /\ reconcileLog = "anomaly"
          /\ (exitCode = 1 \/ currentPosition.isNull)
  /\ \A c \in Cycles :
       cyc[c].pc \notin {"idle", "done"}
         => ~(~currentPosition.isNull /\ currentPosition.signal = 0)

(* C10: reconciliation runs exactly once, writes the ledger from the venue  *)
(* unconditionally and has done so before any cycle is admitted and before  *)
(* the timer is armed.                                                      *)
C10_ReconcileBeforeTrading ==
  /\ reconcileCount <= 1
  /\ (cycleCount > 0 \/ cycleInterval)
       => (reconcileCount = 1 /\ ReconcileRead)
  /\ (mainPc = "ready" /\ exitCode = 0 - 1)
       => currentPosition = ReconciledPosition(venue)

(* C11: signal function.  For all prices and ratios, with                   *)
(* spread = priceA - ratio * priceB, the signal is +1 exactly when the      *)
(* spread is negative, -1 exactly when it is positive and 0 exactly when    *)
(* it is zero.                                                              *)
C11_SignalFunction ==
  (probe.fn = "signal" /\ probe.done)
    => LET spread == probe.priceA - probe.ratio * probe.priceB
       IN /\ probe.out \in {0 - 1, 0, 1}
          /\ (probe.out = 1) <=> (spread < 0)
          /\ (probe.out = 0 - 1) <=> (spread > 0)
          /\ (probe.out = 0) <=> (spread = 0)

C11_Witness ==
  /\ probe.fn = "signal"
  /\ probe.done
  /\ probe.ratio = PRICE_RATIO
  /\ probe.priceA = 10
  /\ probe.priceB = 1
  /\ probe.out = 0

(* C12: no look-ahead.  With the bars ordered oldest to newest, the signal  *)
(* of a cycle is the signal of the bar SIGNAL_LAG_PERIODS positions before  *)
(* the last (freshest) bar of the sequence.                                 *)
C12_NoLookAhead ==
  (probe.fn = "lag" /\ probe.done)
    => LET lagged == Len(probe.driftCandles) - SIGNAL_LAG_PERIODS
           spread == probe.driftCandles[lagged]
                       - PRICE_RATIO * probe.kmnoCandles[lagged]
       IN probe.out = IF spread < 0 THEN 1 ELSE IF spread > 0 THEN 0 - 1 ELSE 0

(* C13: bounded retry.  The wrapped function is invoked at most maxRetries  *)
(* times; the wrapper returns at the first attempt that succeeds, without   *)
(* any further invocation; when every attempt fails it fails with the       *)
(* error of the last attempt and has not slept after that attempt.          *)
C13_BoundedRetry ==
  (probe.fn = "retry" /\ probe.done)
    => LET fn == probe.behaviour
           maxRetries == probe.maxRetries
           out == probe.out
       IN /\ out.attempt \in 1 .. maxRetries
          /\ out.ok <=> (\E k \in 1 .. maxRetries : fn[k])
          /\ out.ok => /\ fn[out.attempt]
                       /\ \A k \in 1 .. (out.attempt - 1) : ~fn[k]
          /\ ~out.ok => /\ out.attempt = maxRetries
                        /\ Len(out.sleeps) = maxRetries - 1

C13_Witness ==
  /\ probe.fn = "retry"
  /\ probe.done
  /\ probe.maxRetries = MAX_RETRIES
  /\ \A k \in 1 .. MAX_RETRIES : ~probe.behaviour[k]
  /\ ~probe.out.ok
  /\ probe.out.attempt = MAX_RETRIES
  /\ Len(probe.out.sleeps) = MAX_RETRIES - 1

(* C14: backoff schedule.  After failed attempt k, k below the last         *)
(* attempt, the wrapper sleeps RETRY_DELAY_MS * 2^(k-1) (1000 then 2000     *)
(* for three attempts); one sleep per failed attempt before the one that    *)
(* ended the call, so the total sleep never exceeds the sum of those        *)
(* delays.                                                                  *)
C14_BackoffSchedule ==
  (probe.fn = "retry" /\ probe.done)
    => LET out == probe.out
       IN /\ Len(out.sleeps) = out.attempt - 1
          /\ Len(out.sleeps) <= probe.maxRetries - 1
          /\ \A k \in 1 .. Len(out.sleeps) :
               out.sleeps[k] = RETRY_DELAY_MS * 2 ^ (k - 1)

C14_Witness ==
  /\ probe.fn = "retry"
  /\ probe.done
  /\ probe.maxRetries = MAX_RETRIES
  /\ ~probe.out.ok
  /\ probe.out.sleeps = <<1000, 2000>>

(* C15: liquidity fillability.  For a book that was read, the check         *)
(* returns canFill = FALSE with infinite slippage exactly when the sizes    *)
(* of the book's levels sum to less than the order size (an empty book      *)
(* included); otherwise canFill = TRUE with a finite slippage.              *)
C15_LiquidityFillability ==
  (probe.fn = "liquidity" /\ probe.done /\ probe.ok)
    => LET RECURSIVE Depth(_)
           Depth(book) ==
             IF book = <<>> THEN 0 ELSE Head(book).size + Depth(Tail(book))
           out == probe.out.result
       IN /\ ~out.canFill <=> (Depth(probe.orders) < probe.orderSize)
          /\ out.infinite <=> ~out.canFill

C15_Witness ==
  /\ probe.fn = "liquidity"
  /\ probe.done
  /\ probe.ok
  /\ probe.orders = <<Level(100, 5), Level(101, 5)>>
  /\ probe.orderSize = 12
  /\ ~probe.out.result.canFill
  /\ probe.out.result.infinite

(* C16: liquidity price.  When the book can fill the order, the levels are  *)
(* taken in book order, min(level size, remaining) from each; the filled    *)
(* size is exactly the order size, the average price is the notional over   *)
(* the filled size and the slippage is |average - best| / best, best being  *)
(* the price of the first level.                                            *)
C16_LiquidityPrice ==
  (probe.fn = "liquidity" /\ probe.done /\ probe.ok
     /\ probe.out.result.canFill)
    => LET RECURSIVE Notional(_, _)
           Notional(book, remaining) ==
             IF book = <<>> \/ remaining = 0
             THEN 0
             ELSE LET take == IF Head(book).size < remaining
                              THEN Head(book).size ELSE remaining
                  IN take * Head(book).price
                       + Notional(Tail(book), remaining - take)
           notional == Notional(probe.orders, probe.orderSize)
           best == probe.orders[1].price
           filled == probe.out.walk.totalSize
           diff == notional - best * filled
           out == probe.out.result
       IN /\ filled = probe.orderSize
          /\ probe.out.walk.totalValue = notional
          /\ out.den > 0
          \* num / den = |notional / filled - best| / best
          /\ out.num * (best * filled)
               = (IF diff < 0 THEN 0 - diff ELSE diff) * out.den

C16_Witness ==
  /\ probe.fn = "liquidity"
  /\ probe.done
  /\ probe.ok
  /\ probe.orders = <<Level(100, 5), Level(101, 5)>>
  /\ probe.orderSize = 8
  /\ probe.out.result.canFill
  /\ probe.out.walk.totalValue = 803
  /\ probe.out.result.num * 800 = 3 * probe.out.result.den

(* C17: liquidity I/O failure is soft.  When the book cannot be read the    *)
(* check does not throw: it returns canFill = FALSE with infinite           *)
(* slippage, after a single request (no retry).                             *)
C17_LiquiditySoftFailure ==
  (probe.fn = "liquidity" /\ probe.done /\ ~probe.ok)
    => /\ ~probe.out.result.threw
       /\ ~probe.out.result.canFill
       /\ probe.out.result.infinite
       /\ probe.out.result.requests = 1

C17_Witness ==
  /\ probe.fn = "liquidity"
  /\ probe.done
  /\ ~probe.ok
  /\ probe.orders # <<>>
  /\ ~probe.out.result.canFill

(* C18: liquidity rejection precedes submission.  When openPosition has     *)
(* received the two liquidity results and either has canFill = FALSE or a   *)
(* slippage above MAX_SLIPPAGE_BPS, no order is submitted and the ledger    *)
(* is not changed; when both pass, the open orders of both legs are         *)
(* submitted; open orders are submitted in no other step.                   *)
C18_RejectionPrecedesSubmission ==
  [][LET rejected ==
           \E m \in Markets :
             \/ ~liquidityLog'[m].canFill
             \/ liquidityLog'[m].infinite
             \/ liquidityLog'[m].num * 10000
                  > MAX_SLIPPAGE_BPS * liquidityLog'[m].den
         validated ==
           { c \in Cycles : cyc[c].pc = "liquidity" /\ cyc'[c].pc # "liquidity" }
     IN /\ \A c \in validated :
             /\ rejected => /\ legs' \subseteq legs
                            /\ currentPosition' = currentPosition
             /\ ~rejected
                  => { [market |-> l.market, phase |-> l.phase] :
                         l \in { k \in legs' \ legs : k.owner = c } }
                       = { [market |-> m, phase |-> "open"] : m \in Markets }
        /\ (\E l \in legs' \ legs : l.phase = "open" /\ l.status = "inflight")
             => (validated # {} /\ ~rejected)]_vars

C18_Witness ==
  /\ liquidityLog.DRIFT.requests = 1
  /\ ~liquidityLog.DRIFT.canFill
  /\ liquidityLog.KMNO.canFill
  /\ liquidityLog.KMNO.num * 10000 <= MAX_SLIPPAGE_BPS * liquidityLog.KMNO.den
  /\ cycleCount = 1
  /\ ~isCycleRunning
  /\ legs = {}
  /\ currentPosition.isNull

(* C19: after a termination request has been received the timer is         *)
(* stopped and no new trading cycle is admitted, whenever the request       *)
(* arrived.                                                                 *)
C19_NoCycleAfterTermination ==
  [][/\ isShuttingDown' => ~cycleInterval'
     /\ isShuttingDown => cycleCount' = cycleCount]_vars

(* C20: shutdown drains before force-closing.  The forced close is issued   *)
(* only when no cycle is in flight, and while it executes no trading cycle  *)
(* is in its close or open phase.                                           *)
C20_ShutdownDrains ==
  [][/\ (shutPc # "close" /\ shutPc' = "close") => ~isCycleRunning
     /\ shutPc' = "close"
          => \A c \in Cycles : cyc'[c].pc \notin {"close", "open"}]_vars

(* C21: force-flatten at end of run.  When shutdown begins its close step   *)
(* the ledger is non-flat and a close order is issued for every nonzero     *)
(* leg of the ledger; and when the process exits after shutdown began a     *)
(* close step, the ledger is Flat.                                          *)
C21_ForceFlatten ==
  [][/\ (shutPc # "close" /\ shutPc' = "close")
          => /\ ~currentPosition.isNull
             /\ \A l \in legs' \ legs :
                  /\ l.owner = ShutdownOwner
                  /\ l.phase = "close"
                  /\ l.reduceOnly
             /\ \A m \in Markets :
                  LET q == IF m = "DRIFT" THEN currentPosition.drift
                                          ELSE currentPosition.kmno
                  IN q # 0
                       => \E l \in legs' \ legs :
                            /\ l.market = m
                            /\ l.direction = (IF q > 0 THEN 0 - 1 ELSE 1)
                            /\ l.quantity = (IF q > 0 THEN q ELSE 0 - q)
     /\ (exitCode' = 0 /\ ~opLedger'[ShutdownOwner].isNull)
          => currentPosition'.isNull]_vars

(* C22: shutdown is idempotent.  A termination signal received while        *)
(* shutdown is in progress changes nothing; shutdown never goes back to an  *)
(* earlier step, and close orders of the shutdown path are submitted only   *)
(* in the one step that enters its close step.                              *)
C22_ShutdownIdempotent ==
  [][LET Rank(pc) == CASE pc = "idle" -> 0
                       [] pc = "wait" -> 1
                       [] pc = "close" -> 2
                       [] pc = "unsub" -> 3
     IN /\ (isShuttingDown /\ TerminationSignal) => vars' = vars
        /\ isShuttingDown => isShuttingDown'
        /\ Rank(shutPc') >= Rank(shutPc)
        /\ (\E l \in legs' \ legs :
               l.owner = ShutdownOwner /\ l.status = "inflight")
             => (shutPc # "close" /\ shutPc' = "close")]_vars

C22_Witness ==
  /\ isShuttingDown
  /\ shutPc = "close"
  /\ exitCode = 0 - 1
  /\ \E l \in legs : l.owner = ShutdownOwner /\ l.status = "confirmed"
  /\ \E l \in legs : l.owner = ShutdownOwner /\ l.status = "inflight"

(* C23: cycle failures are contained.  No step of a trading cycle ends the  *)
(* process; when a cycle ends, however it ends, isCycleRunning is false;    *)
(* and a timer trigger that finds isCycleRunning false is admitted as a     *)
(* fresh cycle.                                                             *)
C23_CycleFailuresContained ==
  [][/\ \A c \in Cycles :
          cyc'[c] # cyc[c] => exitCode' = exitCode
     /\ \A c \in Cycles :
          (cyc[c].pc \notin {"idle", "done"} /\ cyc'[c].pc = "done")
            => ~isCycleRunning'
     /\ (TimerFire /\ ~isCycleRunning)
          => /\ cycleCount' = cycleCount + 1
             /\ isCycleRunning'
             /\ cyc'[cycleCount + 1].pc = "fetch"]_vars

C23_Witness ==
  \E c \in Cycles :
    /\ c > 1
    /\ cyc[c].pc = "fetch"
    /\ cyc[c].after = "opFailed"
    /\ fetchLog.DRIFT.status = "ok"
    /\ isCycleRunning
    /\ exitCode = 0 - 1

(* C24: a cycle that cannot obtain usable bars aborts with no effect.  When *)
(* the fetch of either instrument has exhausted its retries, or either      *)
(* instrument returned fewer than SIGNAL_LAG_PERIODS + 1 bars, the cycle    *)
(* ends there, no order is submitted and the ledger is unchanged.           *)
C24_NoBarsNoEffect ==
  [][\A c \in Cycles :
       (cyc[c].pc = "fetch" /\ cyc'[c].pc # "fetch"
          /\ \E m \in Markets :
               \/ fetchLog'[m].status = "failed"
               \/ Len(fetchLog'[m].records) < SIGNAL_LAG_PERIODS + 1)
         => /\ cyc'[c].pc = "done"
            /\ ~isCycleRunning'
            /\ legs' = legs
            /\ venue' = venue
            /\ currentPosition' = currentPosition]_vars

C24_Witness ==
  /\ fetchLog.DRIFT.status = "ok"
  /\ Len(fetchLog.DRIFT.records) = SIGNAL_LAG_PERIODS + 1
  /\ fetchLog.KMNO.status = "ok"
  /\ Len(fetchLog.KMNO.records) = SIGNAL_LAG_PERIODS
  /\ cycleCount = 1
  /\ cyc[1].pc = "done"
  /\ ~currentPosition.isNull
  /\ legs = {}

(* C25: configuration errors are fatal before trading.  When the RPC        *)
(* endpoints or the private key are missing, main() never gets past         *)
(* initialization and the process does not exit with status 0; and then,    *)
(* as whenever initialization has failed (exit status 1), no trading cycle  *)
(* has been started, no timer is armed and no order has been submitted.     *)
C25_ConfigErrorsFatal ==
  /\ ~configOk => (mainPc = "start" /\ exitCode # 0)
  /\ (~configOk \/ exitCode = 1)
       => /\ cycleCount = 0
          /\ ~isCycleRunning
          /\ ~cycleInterval
          /\ legs = {}
          /\ \A c \in Cycles : cyc[c].pc = "idle"
          /\ reconcileCount = 0

C25_Witness ==
  /\ ~configOk
  /\ exitCode = 1
  /\ venue.DRIFT # 0

(* C26: in a cycle that flips the position, liquidity is validated for the  *)
(* new legs before any order of the flip is submitted: while a cycle whose  *)
(* computed signal is nonzero has not yet had its liquidity validated (it   *)
(* is in closePosition or awaiting the liquidity results), it has           *)
(* submitted no order.                                                      *)
C26_LiquidityBeforeFlipOrders ==
  \A c \in Cycles :
    (cyc[c].signal # 0 /\ cyc[c].pc \in {"close", "liquidity"})
      => ~\E l \in legs : l.owner = c

(* C27: a two-leg phase is the join of both legs.  An order submission of   *)
(* a cycle is in flight only while the cycle is still in the phase that     *)
(* submitted it; in particular, when isCycleRunning is false no order       *)
(* submission started by a cycle is still in flight.                        *)
C27_PhaseJoinsBothLegs ==
  /\ \A l \in legs :
       (l.owner \in Cycles /\ l.status = "inflight")
         => cyc[l.owner].pc = l.phase
  /\ ~isCycleRunning
       => ~\E l \in legs : l.owner \in Cycles /\ l.status = "inflight"

(* C28: exits are not blocked by liquidity.  Whenever closePosition is      *)
(* called with a non-flat ledger (by a cycle whose computed signal differs  *)
(* from the ledger's, or by shutdown once no cycle is running) a            *)
(* reduce-only order is submitted, in that step, for every nonzero leg of   *)
(* the ledger, in the direction that reduces it and for its whole size,     *)
(* and no order book is consulted.                                          *)
C28_ExitsNotBlocked ==
  [][LET Quantity(m) == IF m = "DRIFT" THEN currentPosition.drift
                                       ELSE currentPosition.kmno
         Submitted(owner) ==
           \A m \in Markets :
             Quantity(m) # 0
               => \E l \in legs' \ legs :
                    /\ l.owner = owner
                    /\ l.market = m
                    /\ l.status = "inflight"
                    /\ l.reduceOnly
                    /\ l.direction = (IF Quantity(m) > 0 THEN 0 - 1 ELSE 1)
                    /\ l.quantity = (IF Quantity(m) > 0 THEN Quantity(m)
                                                        ELSE 0 - Quantity(m))
         computed ==
           LET spread == fetchLog'.DRIFT.records[SIGNAL_LAG_PERIODS + 1]
                           - PRICE_RATIO
                               * fetchLog'.KMNO.records[SIGNAL_LAG_PERIODS + 1]
           IN IF spread < 0 THEN 1 ELSE IF spread > 0 THEN 0 - 1 ELSE 0
     IN /\ \A c \in Cycles :
             (/\ cyc[c].pc = "fetch"
              /\ cyc'[c].pc # "fetch"
              /\ \A m \in Markets :
                   /\ fetchLog'[m].status = "ok"
                   /\ Len(fetchLog'[m].records) >= SIGNAL_LAG_PERIODS + 1
              /\ ~currentPosition.isNull
              /\ currentPosition.signal # computed)
               => (Submitted(c) /\ liquidityLog' = liquidityLog)
        /\ (/\ shutPc \in {"idle", "wait"}
            /\ shutPc' # shutPc
            /\ shutPc' # "wait"
            /\ ~currentPosition.isNull)
             => (Submitted(ShutdownOwner) /\ liquidityLog' = liquidityLog)]_vars

C28_Witness ==
  \E c \in Cycles :
    /\ cyc[c].pc = "close"
    /\ liquidityLog = NoLiquidity
    /\ currentPosition = [isNull |-> FALSE, drift |-> DRIFT_QUANTITY,
                          kmno |-> 0 - KMNO_QUANTITY, signal |-> 1]
    /\ \E l \in legs : /\ l.owner = c
                       /\ l.market = "DRIFT"
                       /\ l.direction = 0 - 1
                       /\ l.status = "inflight"
    /\ \E l \in legs : /\ l.owner = c
                       /\ l.market = "KMNO"
                       /\ l.direction = 1
                       /\ l.status = "inflight"

(* C29: hold on unchanged signal.  When the signal a cycle computes equals  *)
(* the ledger's current signal (0 for a Flat ledger), the cycle ends        *)
(* without submitting any order and leaves the ledger unchanged.            *)
C29_HoldOnUnchangedSignal ==
  [][LET computed ==
           LET spread == fetchLog'.DRIFT.records[SIGNAL_LAG_PERIODS + 1]
                           - PRICE_RATIO
                               * fetchLog'.KMNO.records[SIGNAL_LAG_PERIODS + 1]
           IN IF spread < 0 THEN 1 ELSE IF spread > 0 THEN 0 - 1 ELSE 0
         current == IF currentPosition.isNull THEN 0
                    ELSE currentPosition.signal
     IN \A c \in Cycles :
          (/\ cyc[c].pc = "fetch"
           /\ cyc'[c].pc # "fetch"
           /\ \A m \in Markets :
                /\ fetchLog'[m].status = "ok"
                /\ Len(fetchLog'[m].records) >= SIGNAL_LAG_PERIODS + 1
           /\ computed = current)
            => /\ cyc'[c].pc = "done"
               /\ legs' = legs
               /\ venue' = venue
               /\ currentPosition' = currentPosition]_vars

C29_Witness ==
  /\ cycleCount = 1
  /\ cyc[1].pc = "done"
  /\ fetchLog.DRIFT.status = "ok"
  /\ fetchLog.KMNO.status = "ok"
  /\ fetchLog.DRIFT.records = <<30, 20, 10>>
  /\ fetchLog.KMNO.records = <<2, 2, 2>>
  /\ currentPosition = [isNull |-> FALSE, drift |-> DRIFT_QUANTITY,
                        kmno |-> 0 - KMNO_QUANTITY, signal |-> 1]
  /\ venue = [DRIFT |-> DRIFT_QUANTITY, KMNO |-> 0 - KMNO_QUANTITY]
  /\ legs = {}

(* C30: open from Flat.  When the ledger is Flat and the computed signal s  *)
(* is nonzero, the cycle goes to openPosition without submitting any        *)
(* order, and never submits a close order; the orders openPosition submits  *)
(* are DRIFT in direction s for DRIFT_QUANTITY and KMNO in direction -s     *)
(* for KMNO_QUANTITY, neither reduce-only; and when both are confirmed the  *)
(* ledger becomes (s * DRIFT_QUANTITY, -s * KMNO_QUANTITY, s).              *)
C30_OpenFromFlat ==
  [][LET computed ==
           LET spread == fetchLog'.DRIFT.records[SIGNAL_LAG_PERIODS + 1]
                           - PRICE_RATIO
                               * fetchLog'.KMNO.records[SIGNAL_LAG_PERIODS + 1]
           IN IF spread < 0 THEN 1 ELSE IF spread > 0 THEN 0 - 1 ELSE 0
     IN \A c \in Cycles :
          /\ (/\ cyc[c].pc = "fetch"
              /\ cyc'[c].pc # "fetch"
              /\ \A m \in Markets :
                   /\ fetchLog'[m].status = "ok"
                   /\ Len(fetchLog'[m].records) >= SIGNAL_LAG_PERIODS + 1
              /\ currentPosition.isNull
              /\ computed # 0)
               => /\ cyc'[c].pc = "liquidity"
                  /\ cyc'[c].path = "open"
                  /\ cyc'[c].signal = computed
                  /\ legs' = legs
          /\ cyc'[c].path = "open"
               => \A l \in legs' : l.owner = c => l.phase = "open"
          /\ (cyc[c].pc = "liquidity" /\ cyc'[c].pc = "open")
               => { [market |-> l.market, direction |-> l.direction,
                     quantity |-> l.quantity, reduceOnly |-> l.reduceOnly,
                     status |-> l.status] :
                      l \in { k \in legs' \ legs : k.owner = c } }
                  = { [market |-> "DRIFT", direction |-> cyc[c].signal,
                       quantity |-> DRIFT_QUANTITY, reduceOnly |-> FALSE,
                       status |-> "inflight"],
                      [market |-> "KMNO", direction |-> 0 - cyc[c].signal,
                       quantity |-> KMNO_QUANTITY, reduceOnly |-> FALSE,
                       status |-> "inflight"] }
          /\ (cyc[c].pc = "open" /\ cyc'[c].pc = "done" /\ venue' # venue)
               => currentPosition'
                    = [isNull |-> FALSE,
                       drift |-> cyc[c].signal * DRIFT_QUANTITY,
                       kmno |-> (0 - cyc[c].signal) * KMNO_QUANTITY,
                       signal |-> cyc[c].signal]]_vars

C30_Witness ==
  /\ cycleCount = 1
  /\ cyc[1].pc = "done"
  /\ reconcileLog = "nopos"
  /\ fetchLog.DRIFT.records = <<10, 20, 30>>
  /\ fetchLog.KMNO.records = <<2, 2, 2>>
  /\ liquidityLog.DRIFT.canFill
  /\ liquidityLog.KMNO.canFill
  /\ currentPosition = [isNull |-> FALSE, drift |-> 0 - DRIFT_QUANTITY,
                        kmno |-> KMNO_QUANTITY, signal |-> 0 - 1]
  /\ venue = [DRIFT |-> 0 - DRIFT_QUANTITY, KMNO |-> KMNO_QUANTITY]

(* C31: explicit flatten.  When the ledger is non-flat and the computed     *)
(* signal is 0, the cycle calls closePosition in that step (a close order   *)
(* for every nonzero leg) and never submits an open order; and when its     *)
(* close orders have all confirmed the ledger is Flat and the cycle ends.   *)
C31_ExplicitFlatten ==
  [][LET computed ==
           LET spread == fetchLog'.DRIFT.records[SIGNAL_LAG_PERIODS + 1]
                           - PRICE_RATIO
                               * fetchLog'.KMNO.records[SIGNAL_LAG_PERIODS + 1]
           IN IF spread < 0 THEN 1 ELSE IF spread > 0 THEN 0 - 1 ELSE 0
         Quantity(m) == IF m = "DRIFT" THEN currentPosition.drift
                                       ELSE currentPosition.kmno
     IN \A c \in Cycles :
          /\ (/\ cyc[c].pc = "fetch"
              /\ cyc'[c].pc # "fetch"
              /\ \A m \in Markets :
                   /\ fetchLog'[m].status = "ok"
                   /\ Len(fetchLog'[m].records) >= SIGNAL_LAG_PERIODS + 1
              /\ ~currentPosition.isNull
              /\ computed = 0)
               => /\ cyc'[c].pc = "close"
                  /\ cyc'[c].signal = 0
                  /\ \A m \in Markets :
                       Quantity(m) # 0
                         => \E l \in legs' \ legs :
                              /\ l.owner = c
                              /\ l.market = m
                              /\ l.phase = "close"
                              /\ l.status = "inflight"
          /\ (cyc'[c].pc \notin {"idle", "done"} /\ cyc'[c].signal = 0)
               => \A l \in legs' : l.owner = c => l.phase = "close"
          /\ (/\ cyc[c].pc = "close"
              /\ cyc[c].signal = 0
              /\ cyc'[c].pc # "close"
              /\ lastOutcome' = "other")
               => /\ cyc'[c].pc = "done"
                  /\ \A l \in legs' : l.owner # c
                  /\ currentPosition'.isNull
                  /\ ~isCycleRunning']_vars

(* C32: close orders only reduce exposure.  Every order closePosition       *)
(* submits is reduce-only, is for a leg whose ledger quantity is nonzero,   *)
(* in the direction opposite to the sign of that quantity and for its       *)
(* absolute value; every order openPosition submits is not reduce-only.     *)
C32_CloseOrdersReduceOnly ==
  [][\A l \in legs' \ legs :
       l.status = "inflight"
         => LET q == IF l.market = "DRIFT" THEN currentPosition.drift
                                           ELSE currentPosition.kmno
            IN /\ l.phase = "close"
                    => /\ l.reduceOnly
                       /\ ~currentPosition.isNull
                       /\ q # 0
                       /\ l.direction = (IF q > 0 THEN 0 - 1 ELSE 1)
                       /\ l.quantity = (IF q > 0 THEN q ELSE 0 - q)
               /\ l.phase = "open" => ~l.reduceOnly
               /\ l.phase \in {"close", "open"}]_vars

C32_Witness ==
  /\ currentPosition = [isNull |-> FALSE, drift |-> 0 - DRIFT_QUANTITY,
                        kmno |-> KMNO_QUANTITY, signal |-> 0 - 1]
  /\ [owner |-> 1, phase |-> "close", market |-> "KMNO", direction |-> 0 - 1,
      quantity |-> KMNO_QUANTITY, reduceOnly |-> TRUE, status |-> "inflight"]
       \in legs
  /\ [owner |-> 1, phase |-> "close", market |-> "DRIFT", direction |-> 1,
      quantity |-> DRIFT_QUANTITY, reduceOnly |-> TRUE, status |-> "confirmed"]
       \in legs
  /\ venue = [DRIFT |-> 0, KMNO |-> KMNO_QUANTITY]

(* C33: shutdown releases the venue connection.  Whenever the process has   *)
(* exited through shutdown (status 0), unsubscribe had been called.         *)
C33_ShutdownUnsubscribes ==
  exitCode = 0 => shutPc = "unsub"

(* C35: bounded work per cycle.  A cycle moves forward only (fetch, close,  *)
(* liquidity, open, done); it submits orders in at most two steps, the      *)
(* close legs when it leaves the fetch and the open legs when it leaves the *)
(* liquidity checks, at most one order per market each time, hence at most  *)
(* four orders.  Every retried call makes at most MAX_RETRIES attempts, and *)
(* a bar fetch or an order that has used them up ends the cycle as failed   *)
(* in that step, with no further order and the ledger untouched.            *)
C35_BoundedWork ==
  [][LET rank(pc) == CASE pc = "idle" -> 0
                       [] pc = "fetch" -> 1
                       [] pc = "close" -> 2
                       [] pc = "liquidity" -> 3
                       [] pc = "open" -> 4
                       [] pc = "done" -> 5
         Moves(l) == IF l.reduceOnly
                     THEN venue[l.market] * l.direction < 0
                     ELSE TRUE
     IN /\ \A fn \in [1 .. MAX_RETRIES -> BOOLEAN] :
             LET r == retryWithBackoff(fn, MAX_RETRIES, 1, <<>>)
             IN /\ r.attempt \in 1 .. MAX_RETRIES
                /\ Len(r.sleeps) < MAX_RETRIES
                /\ ~r.ok <=> (\A k \in 1 .. MAX_RETRIES : ~fn[k])
        /\ \A c \in Cycles :
             LET submitted == { l \in legs' \ legs :
                                  l.owner = c /\ l.status = "inflight" }
                 settling == { l \in legs :
                                 /\ l.owner = c
                                 /\ l.status = "inflight"
                                 /\ l \notin legs'
                                 /\ cyc[c].pc = l.phase }
                 endsFailed == /\ cyc'[c].pc = "done"
                               /\ ~isCycleRunning'
                               /\ submitted = {}
                               /\ currentPosition' = currentPosition
             IN /\ rank(cyc'[c].pc) >= rank(cyc[c].pc)
                /\ \A l1, l2 \in submitted : l1.market = l2.market => l1 = l2
                /\ Cardinality(submitted) <= 2
                /\ submitted # {}
                     => \/ /\ cyc[c].pc = "fetch"
                           /\ cyc'[c].pc = "close"
                           /\ \A l \in submitted : l.phase = "close"
                        \/ /\ cyc[c].pc = "liquidity"
                           /\ cyc'[c].pc = "open"
                           /\ \A l \in submitted : l.phase = "open"
                /\ (/\ cyc[c].pc = "fetch"
                    /\ cyc'[c].pc # "fetch"
                    /\ \E m \in Markets : fetchLog'[m].status = "failed")
                     => endsFailed
                /\ \A l \in settling :
                     (venue' = venue /\ Moves(l))
                       => /\ endsFailed
                          /\ lastOutcome' \in {"opFailed", "flipOpenFailed"}]_vars

C35_Witness ==
  /\ cycleCount = 1
  /\ cyc[1].pc = "done"
  /\ lastOutcome = "flipOpenFailed"
  /\ liquidityLog # NoLiquidity
  /\ venue = [DRIFT |-> 0 - DRIFT_QUANTITY, KMNO |-> 0]
  /\ currentPosition.isNull
  /\ ~isCycleRunning
  /\ legs = {}

(* C36: open orders are submitted only while the ledger is Flat.  In every  *)
(* step in which openPosition submits an order, currentPosition is null.    *)
C36_OpenOnlyWhenFlat ==
  [][(\E l \in legs' \ legs : l.phase = "open" /\ l.status = "inflight")
       => /\ currentPosition.isNull
          /\ currentPosition'.isNull]_vars

C36_Witness ==
  /\ cyc[1].pc = "open"
  /\ cyc[1].path = "close"
  /\ currentPosition.isNull
  /\ venue = [DRIFT |-> 0, KMNO |-> 0]
  /\ Cardinality({ l \in legs : /\ l.owner = 1
                                /\ l.phase = "open"
                                /\ l.status = "inflight" }) = 2

(* C37: exposure bound.  When the process started with a Flat venue account *)
(* (reconcilePositionState read it and found no position), the quantity the *)
(* venue holds never exceeds DRIFT_QUANTITY on DRIFT and KMNO_QUANTITY on    *)
(* KMNO in absolute value.                                                  *)
C37_ExposureBound ==
  reconcileLog = "nopos"
    => /\ venue.DRIFT <= DRIFT_QUANTITY
       /\ 0 - venue.DRIFT <= DRIFT_QUANTITY
       /\ venue.KMNO <= KMNO_QUANTITY
       /\ 0 - venue.KMNO <= KMNO_QUANTITY

(* C38: no trading on an unreconciled ledger.  When the venue position      *)
(* query of reconcilePositionState threw, no trading cycle is ever started  *)
(* (the ledger still holds its default, Flat).                              *)
C38_NoTradingUnreconciled ==
  reconcileLog = "error"
    => /\ cycleCount = 0
       /\ \A c \in Cycles : cyc[c].pc = "idle"

C34_SelfHealing ==
  <>[]((feed.healthy /\ reconcileLog \in {"restored", "nopos"})
         => (IF currentPosition.isNull THEN 0 ELSE currentPosition.signal)
              = feed.signal)

C34_Witness ==
  /\ feed = [healthy |-> TRUE, signal |-> 1]
  /\ reconcileLog = "nopos"
  /\ cycleCount = 2
  /\ cyc[2].pc = "done"
  /\ ~isCycleRunning
  /\ currentPosition = [isNull |-> FALSE, drift |-> DRIFT_QUANTITY,
                        kmno |-> 0 - KMNO_QUANTITY, signal |-> 1]
  /\ venue = [DRIFT |-> 2 * DRIFT_QUANTITY, KMNO |-> 0 - KMNO_QUANTITY]

====
